---- MODULE Spec2Model ----
(***************************************************************************)
(* Model of the SWOT analyzer service (src/main.py): a table of competitor *)
(* rows in the record store, and HTTP requests (update-single, update-all) *)
(* that read rows, call the LLM and write the four SWOT output fields.     *)
(* Each request is a sequence of steps separated by its external calls     *)
(* (store select, LLM completion, store update); requests interleave at    *)
(* these calls.                                                            *)
(***************************************************************************)
EXTENDS Integers, Sequences, FiniteSets, TLC

(* ------------------------------ bounds --------------------------------- *)
\* competitor ids 1..MaxId may have a row; MaxId + 1 never has one
MaxId == 2

Ids == 1..MaxId
PathIds == 1..(MaxId + 1)
\* The requests of one run.  One server process handles its requests one
\* after the other (the handlers never await); two requests interleave
\* when two processes serve the same store.
Reqs == {1, 2}

\* Python's None (a NULL column); distinct from every text value
None == "<None>"
Text == "text"

DescFields == <<"program_summary", "competitor_positioning",
                "competitor_rewards_benefits", "competitor_user_feedback">>
OutFields == <<"competitor_strength", "competitor_weakness",
               "competitor_opportunity", "competitor_threats">>
SelectColumns == {"id", "competitor_name"} \cup {DescFields[k] : k \in 1..4}
ResponseColumns == {"id", "competitor_name"} \cup {OutFields[k] : k \in 1..4}

Range(s) == {s[k] : k \in 1..Len(s)}

(* --------------------------- pure functions ---------------------------- *)
\* dict.get(key, default): the default is used only when the key is missing
DictGet(d, key, default) == IF key \in DOMAIN d THEN d[key] ELSE default

\* f-string interpolation "{value}": str(None) is the text "None"
FStr(value) == IF value = None THEN "None" ELSE value

\* The prompt of get_swot_analysis, as the values interpolated into the
\* slots of its fixed template.
BuildPrompt(competitor_name, existing_data) ==
    [name                 |-> FStr(competitor_name),
     program_summary      |-> FStr(DictGet(existing_data, "program_summary", "N/A")),
     market_positioning   |-> FStr(DictGet(existing_data, "competitor_positioning", "N/A")),
     rewards_and_benefits |-> FStr(DictGet(existing_data, "competitor_rewards_benefits", "N/A")),
     user_feedback        |-> FStr(DictGet(existing_data, "competitor_user_feedback", "N/A"))]

\* A parsed SWOTAnalysis: four required strings.  The text the LLM returns
\* is identified by the call that produced it (request r, competitor id);
\* r = 0 is an analysis written before the run.
SWOTAnalysis(r, id) ==
    [strengths     |-> "S-" \o ToString(r) \o "-" \o ToString(id),
     weaknesses    |-> "W-" \o ToString(r) \o "-" \o ToString(id),
     opportunities |-> "O-" \o ToString(r) \o "-" \o ToString(id),
     threats       |-> "T-" \o ToString(r) \o "-" \o ToString(id)]

\* A payload that leaves out one of the four fields
UpdatePayloadNoThreats(swot) ==
    [competitor_strength    |-> swot.strengths,
     competitor_weakness    |-> swot.weaknesses,
     competitor_opportunity |-> swot.opportunities]

\* The payload of the store update built from a SWOTAnalysis
UpdatePayload(swot) ==
    [competitor_strength    |-> swot.strengths,
     competitor_weakness    |-> swot.weaknesses,
     competitor_opportunity |-> swot.opportunities,
     competitor_threats     |-> swot.threats]

\* An update that the store applies to the first two output columns only
TableUpdatePartial(table, payload, id) ==
    [k \in DOMAIN table |->
        IF table[k].id = id
        THEN [c \in DOMAIN table[k] |->
                 IF c \in DOMAIN payload \cap {"competitor_strength", "competitor_weakness"}
                 THEN payload[c] ELSE table[k][c]]
        ELSE table[k]]

\* table.update(payload).eq('id', id): overwrite the payload's columns of
\* the rows with that id, in one store call
TableUpdate(table, payload, id) ==
    [k \in DOMAIN table |->
        IF table[k].id = id
        THEN [c \in DOMAIN table[k] |->
                 IF c \in DOMAIN payload THEN payload[c] ELSE table[k][c]]
        ELSE table[k]]

\* CompetitorResponse(**row): keeps id, competitor_name and the four outputs
CompetitorResponse(row) == [c \in ResponseColumns |-> row[c]]

\* select(columns): the projection of a row
Project(row) == [c \in SelectColumns |-> row[c]]

\* All orders in which the store may return a set of ids
Orders(S) ==
    {s \in [1..Cardinality(S) -> S] : \A a, b \in 1..Cardinality(S) : a # b => s[a] # s[b]}

\* select(...).eq('id', competitor_id): the rows with that id
SelectById(table, competitor_id) == {k \in DOMAIN table : table[k].id = competitor_id}

\* A query that forgets the filter
SelectEveryRow(table) == DOMAIN table

\* select(...).is_('competitor_strength', 'null'): the rows not yet analyzed
SelectUnanalyzed(table) == {k \in DOMAIN table : table[k].competitor_strength = None}

\* HTTPException(status_code, detail) and the return values of the handlers
HTTPError(status, detail) == [status |-> status, detail |-> detail]

(* ------------------------------- state --------------------------------- *)
VARIABLES
    table,   \* the competitors table: id -> row
    req      \* the requests: their handler's locals and what they did

vars == <<table, req>>

Row(id, desc, out) ==
    [id |-> id, competitor_name |-> "name" \o ToString(id),
     program_summary             |-> desc[1],
     competitor_positioning      |-> desc[2],
     competitor_rewards_benefits |-> desc[3],
     competitor_user_feedback    |-> desc[4],
     competitor_strength    |-> out.competitor_strength,
     competitor_weakness    |-> out.competitor_weakness,
     competitor_opportunity |-> out.competitor_opportunity,
     competitor_threats     |-> out.competitor_threats]

Unanalyzed == [c \in Range(OutFields) |-> None]

\* The output fields of a row that holds the analysis swot
Analyzed(swot) ==
    [competitor_strength    |-> swot.strengths,
     competitor_weakness    |-> swot.weaknesses,
     competitor_opportunity |-> swot.opportunities,
     competitor_threats     |-> swot.threats]

IdleRequest ==
    [kind |-> "none", pc |-> "idle", competitor_id |-> 0,
     data |-> <<>>, i |-> 0, swot |-> None,
     updated_competitors |-> <<>>, response |-> [status |-> 0],
     \* history of what the request did, for the properties below
     found |-> "none", unset_at_query |-> {},
     inv_llm |-> 0, inv_writes |-> 0, inv_parsed |-> FALSE,
     llm_log |-> <<>>, write_log |-> <<>>, inv_log |-> <<>>]

\* Descriptive fields of a row: any combination of NULL and text
AllDescs == [1..4 -> {None, Text}]
\* All four NULL, or all four text
SomeDescs == {d \in AllDescs : \A k \in 1..4 : d[k] = d[1]}

\* A table of the rows 1..n: desc[k] are row k's descriptive fields, and
\* row k was analyzed before the run iff analyzed[k]
InitialTable(n, desc, analyzed) ==
    [k \in 1..n |->
        Row(k, desc[k],
            IF analyzed[k] THEN Analyzed(SWOTAnalysis(0, k)) ELSE Unanalyzed)]

\* Rows are created outside this system: any number of rows, each never
\* analyzed or analyzed by an earlier run.
Init ==
    /\ \E n \in 0..MaxId, d \in SomeDescs :
       \E analyzed \in [1..n -> BOOLEAN] :
          table = InitialTable(n, [k \in 1..n |-> d], analyzed)
    /\ req = [r \in Reqs |-> IdleRequest]

\* One row, with every combination of its descriptive fields
InitPrompt ==
    /\ \E d \in AllDescs, analyzed \in BOOLEAN :
          table = InitialTable(1, <<d>>, <<analyzed>>)
    /\ req = [r \in Reqs |-> IdleRequest]

(* ------------------------- handlers' control flow ---------------------- *)
\* The body of a 200 response of update-all after the loop (lines 170-174)
BatchSummary(updated_competitors) ==
    [status |-> "success",
     total_processed |-> Len(updated_competitors),
     updated_competitors |-> updated_competitors]

\* A check that never takes the early return
NoDataNever(data) == FALSE

\* `if not response.data` (lines 123, 151)
NoData(data) == Len(data) = 0

\* A loop that walks the list from its end
CurrentCompetitorReversed(rq) == rq.data[Len(rq.data) + 1 - rq.i]

\* The competitor the loop (or update-single) is working on
CurrentCompetitor(rq) == rq.data[rq.i]

\* update_competitor_swot is entered for the current competitor
EnterUpdater(rq) ==
    [rq EXCEPT !.pc = "llm", !.inv_llm = 0, !.inv_writes = 0, !.inv_parsed = FALSE]

\* update_competitor_swot is left, by return (ok) or by exception
LeaveUpdater(rq, ok) ==
    [rq EXCEPT !.inv_log = Append(@, [id |-> CurrentCompetitor(rq).id,
                                      llm_calls |-> rq.inv_llm,
                                      store_writes |-> rq.inv_writes,
                                      parsed |-> rq.inv_parsed,
                                      ok |-> ok])]

\* `for competitor in response.data`: the next iteration, or the return
\* after the last one
LoopNext(rq) ==
    IF rq.pc = "done" THEN rq
    ELSE IF rq.i + 1 > Len(rq.data)
    THEN [rq EXCEPT !.pc = "done",
                    !.response = [status |-> 200,
                                  body |-> BatchSummary(rq.updated_competitors)]]
    ELSE EnterUpdater([rq EXCEPT !.i = rq.i + 1])

\* update-single's `except Exception as e` (lines 136-138): every exception
\* raised in the try block, of whatever class, becomes a 500
UpdateSingleExcept(rq, e) ==
    [rq EXCEPT !.pc = "done", !.response = HTTPError(500, e)]

\* update-all's outer `except Exception as e` (lines 176-178)
UpdateAllExcept(rq, e) ==
    [rq EXCEPT !.pc = "done", !.response = HTTPError(500, e)]

\* A loop without its per-item try/except: the failure reaches the outer
\* handler
UpdateAllItemRaise(rq, e) == UpdateAllExcept(rq, e)

\* update-all's per-item `except Exception as e` (lines 167-168): log only
UpdateAllItemExcept(rq, e) == rq

\* An updater that writes a fallback analysis when the LLM call fails
UpdaterExceptFallback(rq, e) ==
    IF rq.pc = "llm"
    THEN [rq EXCEPT !.swot = SWOTAnalysis(0, CurrentCompetitor(rq).id), !.pc = "write"]
    ELSE IF rq.kind = "single"
    THEN UpdateSingleExcept(LeaveUpdater(rq, FALSE), e)
    ELSE LoopNext(UpdateAllItemExcept(LeaveUpdater(rq, FALSE), e))

\* An updater that calls the LLM a second time when the first call fails
UpdaterExceptRetry(rq, e) ==
    IF rq.pc = "llm" /\ rq.inv_llm < 2
    THEN rq
    ELSE IF rq.kind = "single"
    THEN UpdateSingleExcept(LeaveUpdater(rq, FALSE), e)
    ELSE LoopNext(UpdateAllItemExcept(LeaveUpdater(rq, FALSE), e))

\* update_competitor_swot's `except Exception` (lines 101-103): log, re-raise
\* to the handler that called it
UpdaterExcept(rq, e) ==
    IF rq.kind = "single"
    THEN UpdateSingleExcept(LeaveUpdater(rq, FALSE), e)
    ELSE LoopNext(UpdateAllItemExcept(LeaveUpdater(rq, FALSE), e))

\* update_competitor_swot returns the updated record to the handler
UpdaterReturn(rq, updated) ==
    IF rq.kind = "single"
    THEN [LeaveUpdater(rq, TRUE) EXCEPT !.pc = "done",
                                        !.response = [status |-> 200, body |-> updated]]
    ELSE LoopNext([LeaveUpdater(rq, TRUE) EXCEPT
                      !.updated_competitors = Append(@, updated)])

(* ------------------------------ actions -------------------------------- *)
\* POST /update-single/{competitor_id}, up to the call of the updater
\* (lines 115-132)
UpdateSingleBegin(r, competitor_id, store) ==
    /\ req[r].pc = "idle"
    /\ LET rq0 == [req[r] EXCEPT !.kind = "single", !.competitor_id = competitor_id]
       IN IF store = "error"
          THEN req' = [req EXCEPT ![r] = UpdateSingleExcept(rq0, "store error")]
          ELSE \E order \in Orders(SelectById(table, competitor_id)) :
                 LET data == [k \in DOMAIN order |-> Project(table[order[k]])]
                     rq1 == [rq0 EXCEPT !.data = data]
                 IN IF NoData(data)
                    THEN \* raise HTTPException(404), inside the try block
                         req' = [req EXCEPT ![r] =
                                   UpdateSingleExcept([rq1 EXCEPT !.found = "empty"],
                                                      "404: Competitor not found")]
                    ELSE req' = [req EXCEPT ![r] =
                                   EnterUpdater([rq1 EXCEPT !.found = "row", !.i = 1])]
    /\ UNCHANGED table

\* POST /update-all, up to the first call of the updater (lines 145-158)
UpdateAllBegin(r, store) ==
    /\ req[r].pc = "idle"
    /\ LET rq0 == [req[r] EXCEPT !.kind = "all"]
       IN IF store = "error"
          THEN req' = [req EXCEPT ![r] = UpdateAllExcept(rq0, "store error")]
          ELSE \E order \in Orders(SelectUnanalyzed(table)) :
                 LET data == [k \in DOMAIN order |-> Project(table[order[k]])]
                     rq1 == [rq0 EXCEPT
                               !.data = data,
                               !.found = IF Len(data) = 0 THEN "empty" ELSE "row",
                               !.unset_at_query =
                                   {k \in DOMAIN table : table[k].competitor_strength = None}]
                 IN IF NoData(data)
                    THEN req' = [req EXCEPT ![r] =
                                   [rq1 EXCEPT !.pc = "done",
                                               !.response =
                                                 [status |-> 200,
                                                  body |-> [status |-> "No competitors found needing updates"]]]]
                    ELSE req' = [req EXCEPT ![r] = LoopNext(rq1)]
    /\ UNCHANGED table

\* get_swot_analysis (lines 57-80) called from update_competitor_swot
\* (line 88): build the prompt, call the LLM once.  The call returns a
\* parsed SWOTAnalysis ("parsed"), or it fails ("error"): it raises, or it
\* returns no parsed object and `swot.strengths` raises at line 91, before
\* the store is called.
GetSwotAnalysis(r, outcome) ==
    /\ req[r].pc = "llm"
    /\ LET competitor == CurrentCompetitor(req[r])
           prompt == BuildPrompt(competitor.competitor_name, competitor)
           rq1 == [req[r] EXCEPT
                     !.inv_llm = @ + 1,
                     !.llm_log = Append(@, [id |-> competitor.id,
                                            row |-> competitor,
                                            prompt |-> prompt])]
       IN IF outcome = "error"
          THEN req' = [req EXCEPT ![r] = UpdaterExcept(rq1, "llm error")]
          ELSE req' = [req EXCEPT ![r] =
                         [rq1 EXCEPT !.swot = SWOTAnalysis(r, competitor.id),
                                     !.inv_parsed = TRUE,
                                     !.pc = "write"]]
    /\ UNCHANGED table

\* The store update of update_competitor_swot and its return (lines 90-100).
\* The update call succeeds, or raises without having written, or raises
\* after the store applied it (the reply is lost).
StoreUpdate(r, outcome) ==
    /\ req[r].pc = "write"
    /\ LET competitor == CurrentCompetitor(req[r])
           written == TableUpdate(table, UpdatePayload(req[r].swot), competitor.id)
           rq1 == [req[r] EXCEPT !.inv_writes = @ + 1,
                                 !.write_log = Append(@, competitor.id)]
       IN IF outcome = "error_before"
          THEN /\ req' = [req EXCEPT ![r] = UpdaterExcept(rq1, "store error")]
               /\ UNCHANGED table
          ELSE IF outcome = "error_after"
          THEN /\ req' = [req EXCEPT ![r] = UpdaterExcept(rq1, "store error")]
               /\ table' = written
          ELSE /\ table' = written
               /\ IF SelectById(written, competitor.id) = {}
                  THEN req' = [req EXCEPT ![r] =
                                 UpdaterExcept(rq1, "list index out of range")]
                  ELSE req' = [req EXCEPT ![r] =
                                 UpdaterReturn(rq1, CompetitorResponse(written[competitor.id]))]

LLMOutcomes == {"parsed", "error"}
SelectOutcomes == {"ok", "error"}
UpdateOutcomes == {"ok", "error_before", "error_after"}

Next ==
    \/ \E r \in Reqs, id \in PathIds, o \in SelectOutcomes : UpdateSingleBegin(r, id, o)
    \/ \E r \in Reqs, o \in SelectOutcomes : UpdateAllBegin(r, o)
    \/ \E r \in Reqs, o \in LLMOutcomes : GetSwotAnalysis(r, o)
    \/ \E r \in Reqs, o \in UpdateOutcomes : StoreUpdate(r, o)

Spec == Init /\ [][Next]_vars

SpecPrompt == InitPrompt /\ [][Next]_vars

(* ----------------------------- properties ------------------------------ *)
Ok(log) == SelectSeq(log, LAMBDA e : e.ok)
Failed(log) == SelectSeq(log, LAMBDA e : ~e.ok)
IdsOf(log) == [j \in 1..Len(log) |-> log[j].id]
OutValues(row) == [c \in Range(OutFields) |-> row[c]]

\* C1: update-single for an id that has no row answers 404, and has called
\* neither the LLM nor the store update.
C1_AbsentIdIs404 ==
    \A r \in Reqs :
        (req[r].kind = "single" /\ req[r].pc = "done" /\ req[r].found = "empty")
        => /\ req[r].response.status = 404
           /\ req[r].llm_log = <<>>
           /\ req[r].write_log = <<>>

\* C2: every prompt sent for a row names the competitor and holds "N/A" in
\* the position of each descriptive field that is NULL in the row.
C2_PromptSubstitutesNA ==
    \A r \in Reqs : \A j \in 1..Len(req[r].llm_log) :
        LET row == req[r].llm_log[j].row
            prompt == req[r].llm_log[j].prompt
        IN /\ prompt.name = row.competitor_name
           /\ row.program_summary = None => prompt.program_summary = "N/A"
           /\ row.competitor_positioning = None => prompt.market_positioning = "N/A"
           /\ row.competitor_rewards_benefits = None => prompt.rewards_and_benefits = "N/A"
           /\ row.competitor_user_feedback = None => prompt.user_feedback = "N/A"

\* C3: an update-all whose query returned N >= 1 rows ends with the success
\* summary, never a 500: total_processed is the length of
\* updated_competitors, which are the competitors whose update succeeded, in
\* order; with exactly one failure it is N - 1 and the failing one is absent.
C3_BatchSkipsFailures ==
    \A r \in Reqs :
        (req[r].kind = "all" /\ req[r].pc = "done" /\ req[r].found = "row")
        => /\ req[r].response.status = 200
           /\ req[r].response.body.status = "success"
           /\ LET body == req[r].response.body
                  N == Len(req[r].data)
              IN /\ Len(req[r].inv_log) = N
                 /\ body.total_processed = Len(body.updated_competitors)
                 /\ IdsOf(body.updated_competitors) = IdsOf(Ok(req[r].inv_log))
                 /\ Len(Failed(req[r].inv_log)) = 1
                    => /\ body.total_processed = N - 1
                       /\ Failed(req[r].inv_log)[1].id
                            \notin Range(IdsOf(body.updated_competitors))

C3_Witness ==
    \E r \in Reqs :
        /\ req[r].kind = "all" /\ req[r].pc = "done"
        /\ Len(req[r].data) = 2
        /\ Len(Failed(req[r].inv_log)) = 1
        /\ req[r].response.status = 200
        /\ req[r].response.body.total_processed = 1

\* C4: an update-all calls the LLM and writes the store only for rows whose
\* competitor_strength was NULL in the store when its query ran.
C4_OnlyUnanalyzedRows ==
    \A r \in Reqs :
        req[r].kind = "all"
        => /\ Range(IdsOf(req[r].data)) \subseteq req[r].unset_at_query
           /\ Range(IdsOf(req[r].llm_log)) \subseteq req[r].unset_at_query
           /\ Range(req[r].write_log) \subseteq req[r].unset_at_query

C4_Witness ==
    \E r \in Reqs :
        /\ req[r].kind = "all"
        /\ req[r].write_log # <<>>
        /\ DOMAIN table \ req[r].unset_at_query # {}

\* C5: an update-all whose query returns no row answers "No competitors
\* found needing updates", with no LLM call and no store write.
C5_EmptyBatch ==
    \A r \in Reqs :
        (req[r].kind = "all" /\ req[r].found = "empty")
        => /\ req[r].pc = "done"
           /\ req[r].response = [status |-> 200,
                                 body |-> [status |-> "No competitors found needing updates"]]
           /\ req[r].llm_log = <<>>
           /\ req[r].write_log = <<>>

C5_Witness ==
    \E r \in Reqs :
        /\ req[r].kind = "all" /\ req[r].found = "empty" /\ req[r].pc = "done"
        /\ DOMAIN table # {}

\* C6: the step that completes an update-single with a 200 returns a record
\* with the requested id and four non-NULL output strings, and the stored
\* row holds those four values after that step's write.
C6_SingleSuccess ==
    [][\A r \in Reqs :
         (/\ req[r].pc # "done"
          /\ req'[r].pc = "done"
          /\ req'[r].kind = "single"
          /\ req'[r].response.status = 200)
         => LET body == req'[r].response.body
            IN /\ body.id = req'[r].competitor_id
               /\ body.id \in DOMAIN table'
               /\ \A k \in 1..4 : body[OutFields[k]] # None
               /\ OutValues(body) = Analyzed(req[r].swot)
               /\ OutValues(table'[body.id]) = OutValues(body)]_vars

C6_Witness ==
    \E r \in Reqs :
        /\ req[r].kind = "single" /\ req[r].pc = "done"
        /\ req[r].response.status = 200
        /\ req[r].response.body.competitor_threats = SWOTAnalysis(r, req[r].competitor_id).threats

\* C7 as stated: every invocation of update_competitor_swot makes exactly
\* one LLM call and exactly one store write.
C7_ExactlyOneCallOneWrite ==
    \A r \in Reqs : \A j \in 1..Len(req[r].inv_log) :
        /\ req[r].inv_log[j].llm_calls = 1
        /\ req[r].inv_log[j].store_writes = 1

\* C7 amended: every invocation of update_competitor_swot makes exactly one
\* LLM call and at most one store write: exactly one when the LLM call
\* returned a parsed result, none when the LLM call failed.
C7_OneCallAtMostOneWrite ==
    \A r \in Reqs : \A j \in 1..Len(req[r].inv_log) :
        LET inv == req[r].inv_log[j]
        IN /\ inv.llm_calls = 1
           /\ inv.store_writes = IF inv.parsed THEN 1 ELSE 0

C7_Witness ==
    \E r \in Reqs : \E j, k \in 1..Len(req[r].inv_log) :
        /\ req[r].inv_log[j].store_writes = 0 /\ ~req[r].inv_log[j].parsed
        /\ req[r].inv_log[k].store_writes = 1

\* C8: an update-single whose row exists and whose LLM call fails has called
\* the LLM once, has issued no store write, and ends with a 500 that carries
\* the error text.
C8_SingleLLMFailure ==
    \A r \in Reqs :
        (/\ req[r].kind = "single" /\ req[r].found = "row"
         /\ Len(req[r].inv_log) = 1
         /\ ~req[r].inv_log[1].parsed)
        => /\ Len(req[r].llm_log) = 1
           /\ req[r].inv_log[1].llm_calls = 1
           /\ req[r].write_log = <<>>
           /\ req[r].pc = "done"
           /\ req[r].response = HTTPError(500, "llm error")

C8_Witness ==
    \E r \in Reqs :
        /\ req[r].kind = "single" /\ req[r].found = "row" /\ req[r].pc = "done"
        /\ Len(req[r].inv_log) = 1 /\ ~req[r].inv_log[1].parsed
        /\ req[r].competitor_id \in DOMAIN table

\* C9: an update-all works through the rows of its query one at a time in
\* list order: the j-th LLM call is for the j-th row and starts only after
\* the updater has returned or raised for every earlier row, and the rows
\* written so far all lie in the visited prefix of the list.
C9_SequentialInListOrder ==
    \A r \in Reqs :
        req[r].kind = "all"
        => LET rq == req[r]
               visited == {rq.data[j].id : j \in 1..rq.i}
           IN /\ rq.i <= Len(rq.data)
              /\ IdsOf(rq.llm_log) = [j \in 1..Len(rq.llm_log) |-> rq.data[j].id]
              /\ IdsOf(rq.inv_log) = [j \in 1..Len(rq.inv_log) |-> rq.data[j].id]
              /\ Len(rq.inv_log) <= Len(rq.llm_log)
              /\ Len(rq.llm_log) <= Len(rq.inv_log) + 1
              /\ rq.pc = "llm" => Len(rq.llm_log) = rq.i - 1 /\ Len(rq.inv_log) = rq.i - 1
              /\ rq.pc = "write" => Len(rq.llm_log) = rq.i /\ Len(rq.inv_log) = rq.i - 1
              /\ Range(rq.write_log) \subseteq visited
              /\ \A j \in (rq.i + 1)..Len(rq.data) :
                    rq.data[j].id \notin Range(rq.write_log) \cup Range(IdsOf(rq.llm_log))

C9_Witness ==
    \E r \in Reqs :
        /\ req[r].kind = "all" /\ req[r].pc = "llm"
        /\ Len(req[r].data) = 2 /\ req[r].i = 2
        /\ req[r].write_log = <<req[r].data[1].id>>

\* C10: under every interleaving of the requests, every step leaves each
\* row's four output fields all NULL or all set to the four values of one
\* LLM result, leaves id, competitor_name and the descriptive fields as they
\* were, creates and deletes no row, and sets no output field back to NULL.
OneResult(row) ==
    \E r \in Reqs \cup {0}, id \in Ids : OutValues(row) = Analyzed(SWOTAnalysis(r, id))

WellFormed(row) == OutValues(row) = Unanalyzed \/ OneResult(row)

C10_AtomicOutputs ==
    [][/\ DOMAIN table' = DOMAIN table
       /\ \A k \in DOMAIN table :
            /\ WellFormed(table'[k])
            /\ Project(table'[k]) = Project(table[k])
            /\ \A c \in Range(OutFields) : table[k][c] # None => table'[k][c] # None]_vars

C10_Witness ==
    \E r1, r2 \in Reqs : \E k \in DOMAIN table :
        /\ r1 # r2
        /\ k \in Range(req[r1].write_log) /\ k \in Range(req[r2].write_log)
        /\ req[r1].pc = "done" /\ req[r2].pc = "done"
        /\ OutValues(table[k]) = Analyzed(SWOTAnalysis(r1, k))
====
